---------------------------- MODULE Spec2Model ----------------------------
(***************************************************************************)
(* news-fetcher: the ingestion / dedup / delivery pipeline.                *)
(*                                                                         *)
(*   cache.Cache      src/unnamed/part_003        (Get, Set, Delete,       *)
(*                                                 cleanup, generateKey)   *)
(*   sender.Sender    src/internal/sender/sender.go (SendNews, sendToChat, *)
(*                                                 parseChatID)            *)
(*   App.Run,         src/cmd/test_telegram/main.go                        *)
(*   App.processNews                                                       *)
(*   config           src/unnamed/part_004                                 *)
(*                                                                         *)
(* Every cache method takes c.mu for its whole body, so each method is one *)
(* atomic action.  What is not atomic is what the code runs in goroutines  *)
(* of their own: the `go c.Delete(source, id)` that Get starts for an      *)
(* expired entry, and the sweeper (startCleanup).  Load alone does part   *)
(* of its work, os.ReadFile, before it takes the lock.  Time is a counter  *)
(* that may advance between any two steps; durations are in model time     *)
(* units.                                                                  *)
(***************************************************************************)
EXTENDS Integers, Sequences, FiniteSets, TLC

(***************************************************************************)
(* Bounds of the model.                                                    *)
(***************************************************************************)
MaxTime == 2
\* goroutines `go c.Delete(...)` that may be waiting to run, per key
MaxPending == 1
\* the largest telegram.retry.count explored
MaxRetry == 2
\* the longest batch one Fetch returns
MaxNews == 2
\* durable writes the environment may make fail
MaxFaults == 1
\* the sources one Fetcher is configured with
MaxSources == 2
\* the cycles one end-to-end run goes through
MaxCycles == 2

(***************************************************************************)
(* Program constants.                                                      *)
(***************************************************************************)
\* 365*24*time.Hour, in model time units
OneYear == 2

VARIABLES
    cfg,            \* *config.Config, fixed once loaded
    now,            \* time.Now()
    items,          \* Cache.items: key -> CacheItem
    pendingDelete,  \* per key: `go c.Delete` goroutines started by Get, not yet run
    staleDelete,    \* per key: how many of those were started before the last Set on the key
    pc,             \* where processNews is: idle, filter, send, sent
    newsList,       \* processNews: what Fetch returned, the part not yet filtered
    newNews,        \* processNews: the new batch, then the part not yet sent
    got,            \* the last result of cache.Get in the filter loop
    sendRes,        \* what the last SendNews call did and returned
    sendIn,         \* the transport outcomes that call met
    committed,      \* history: per key, the ExpireAt the most recent Set gave it
    delivered,      \* history: keys whose SendNews succeeded in the running cycle
    failed,         \* history: keys whose delivery failed and that no delivery committed since
    file,           \* what is stored at Cache.filePath
    faults,         \* how many more writes of the file the environment may make fail
    writeFailed,    \* history: some save of the cache has returned an error
    loadBuf,        \* Cache.Load: `data` between os.ReadFile and c.mu.Lock
    ret,            \* what the last direct call of a cache method returned
    ctx,            \* the context App.Run was given
    tick,           \* ticker.C of App.Run: ticks waiting in the channel (capacity 1)
    sig,            \* a SIGINT/SIGTERM has been delivered to sigChan
    mainPc,         \* where App.Run's own goroutine is
    loopPc,         \* where the goroutine of App.Run's main loop is
    inFlight,       \* calls of processNews entered and not yet returned
    feeds,          \* what each configured source answers when it is fetched
    fetched,        \* what the last Fetcher.Fetch did and returned
    cycles,         \* how many times processNews has been entered
    aiRes,          \* what the last AnalyzeNews call met and returned
    ncItems,        \* NewsCache.items: id -> timestamp
    ncLock,         \* NewsCache.mu: who holds it for reading, who for writing
    ncPc,           \* per caller of NewsCache: where it is in its method
    analysed,       \* one item through analyzeNewsItem and formatMessage
    keyOps          \* history: the (source, id) pairs Set, and the pair Get last looked up

vars == <<cfg, now, items, pendingDelete, staleDelete, pc, newsList, newNews,
          got, sendRes, sendIn, committed, delivered, failed,
          file, faults, writeFailed, loadBuf, ret,
          ctx, tick, sig, mainPc, loopPc, inFlight,
          feeds, fetched, cycles, aiRes, ncItems, ncLock, ncPc,
          analysed, keyOps>>

cacheVars == <<items, pendingDelete, staleDelete>>
cycleVars == <<pc, newsList, newNews, got>>
histVars  == <<committed, delivered, failed>>
storeVars == <<file, faults, writeFailed>>
loadVars  == <<loadBuf, ret>>
runVars   == <<ctx, tick, sig, mainPc, loopPc, inFlight>>
ncVars    == <<ncItems, ncLock, ncPc>>
pureVars  == <<analysed, keyOps>>
extVars   == <<feeds, fetched, cycles, aiRes, ncVars, pureVars>>

Max(a, b) == IF a >= b THEN a ELSE b
Min(a, b) == IF a <= b THEN a ELSE b

(***************************************************************************)
(* Configuration (part_004).  validateConfig demands at least one chat id  *)
(* and puts no bound on cache.ttl or on telegram.retry.count.              *)
(***************************************************************************)
\* chat ids as they stand in the YAML: strings, here sequences of characters
ChatIDs == { <<>>, <<"a">>, <<"0">>, <<"4", "2">>, <<"-", "7">> }

ChatIDLists == { <<a>> : a \in ChatIDs } \cup { <<a, b>> : a, b \in ChatIDs }

RetryCounts == (0 - 1) .. MaxRetry

\* cache.ttl: negative, zero, inside the clamp, beyond the clamp
TTLs == (0 - 1) .. (OneYear + 1)

validateConfig(c) == Len(c.ChatIDs) # 0

(***************************************************************************)
(* sender.go                                                               *)
(***************************************************************************)
DigitVal == [c \in {"0", "1", "2", "3", "4", "5", "6", "7", "8", "9"} |->
               CASE c = "0" -> 0 [] c = "1" -> 1 [] c = "2" -> 2 [] c = "3" -> 3
                 [] c = "4" -> 4 [] c = "5" -> 5 [] c = "6" -> 6 [] c = "7" -> 7
                 [] c = "8" -> 8 [] c = "9" -> 9]

RECURSIVE DigitsValue(_)
DigitsValue(s) ==
    IF s = <<>> THEN 0
    ELSE 10 * DigitsValue(SubSeq(s, 1, Len(s) - 1)) + DigitVal[s[Len(s)]]

\* strconv.ParseInt(s, 10, 64) on the short strings of the model: an optional
\* sign, then one digit or more
ParseInt(s) ==
    LET signed == s # <<>> /\ s[1] \in {"+", "-"}
        body   == IF signed THEN Tail(s) ELSE s
    IN  IF body = <<>> \/ \E i \in 1..Len(body) : body[i] \notin DOMAIN DigitVal
        THEN [ok |-> FALSE, val |-> 0]
        ELSE [ok |-> TRUE,
              val |-> IF signed /\ s[1] = "-" THEN 0 - DigitsValue(body)
                      ELSE DigitsValue(body)]

parseChatID(chatID) ==
    LET r == ParseInt(chatID) IN IF ~r.ok THEN 0 ELSE r.val

\* the error sendToChat returns, "nil" for none; done is whether ctx.Done() is
\* closed when the select looks at it, sendOK is what bot.Send does
sendToChat(done, chatID, sendOK) ==
    IF chatID = <<>> THEN "invalid"
    ELSE IF parseChatID(chatID) = 0 THEN "parse"
    ELSE IF done THEN "ctx"
    ELSE IF sendOK THEN "nil"
    ELSE "send"

\* does sendToChat reach bot.Send for this chat id
ReachesTransport(chatID) == chatID # <<>> /\ parseChatID(chatID) # 0

NilErr == [kind |-> "nil", chat |-> 0, attempt |-> 0]

ZeroCounts(chatIDs) == [j \in 1..Len(chatIDs) |-> 0]

NoSend == [called |-> FALSE, err |-> FALSE, cause |-> NilErr, attempts |-> 0,
           calls |-> <<>>, tx |-> <<>>, sent |-> <<>>]

\* a sender that keeps the first failure instead of the last
SetLastErrFirst(st, e, i, j) ==
    IF st.lastErr = NilErr THEN [kind |-> e, chat |-> j, attempt |-> i] ELSE st.lastErr

\* lastErr = err, where the failure happened
SetLastErr(st, e, i, j) == [kind |-> e, chat |-> j, attempt |-> i]

\* a sender that leaves the recipient loop at the first failure
AfterFailureBreak(chatIDs, j) == Len(chatIDs) + 1

\* after a recipient failed: `continue`, the next recipient
AfterFailure(chatIDs, j) == j + 1

\* the `for _, chatID := range s.cfg.Bot.ChatIDs` loop of attempt i, from
\* recipient j on
RECURSIVE SendAttempt(_, _, _, _, _)
SendAttempt(chatIDs, row, i, j, st) ==
    IF j > Len(chatIDs) THEN st
    ELSE LET e == sendToChat(st.done, chatIDs[j], row[j])
             s1 == [st EXCEPT
                      !.calls[j] = @ + 1,
                      !.tx[j]    = @ + (IF ReachesTransport(chatIDs[j]) /\ ~st.done
                                        THEN 1 ELSE 0),
                      !.sent[j]  = @ + (IF e = "nil" THEN 1 ELSE 0)]
         IN  IF e # "nil"
             THEN SendAttempt(chatIDs, row, i, AfterFailure(chatIDs, j),
                              [s1 EXCEPT !.lastErr = SetLastErr(st, e, i, j)])
             ELSE SendAttempt(chatIDs, row, i, j + 1, s1)

\* var lastErr error: declared once, before the retry loop
AttemptStart(st) == st

\* the `for i := 0; i < s.cfg.Retry.Count; i++` loop; i here is Go's i + 1
RECURSIVE SendLoop(_, _, _, _)
SendLoop(c, out, i, st) ==
    IF i > c.RetryCount
    THEN [called |-> TRUE, err |-> TRUE, cause |-> st.lastErr, attempts |-> i - 1,
          calls |-> st.calls, tx |-> st.tx, sent |-> st.sent]
    ELSE LET s2 == SendAttempt(c.ChatIDs, out[i], i, 1, AttemptStart(st))
         IN  IF s2.lastErr = NilErr
             THEN [called |-> TRUE, err |-> FALSE, cause |-> NilErr, attempts |-> i,
                   calls |-> s2.calls, tx |-> s2.tx, sent |-> s2.sent]
             ELSE SendLoop(c, out, i + 1, s2)

\* Sender.SendNews; NewSender leaves s.bot nil when telegram.enabled is false,
\* and SendNews then returns nil at once.  done is whether ctx is cancelled,
\* out[i][j] is what bot.Send does for recipient j in attempt i.
\* formatMessage never returns "", so the empty message return is not reached.
SendNews(done, c, out) ==
    IF ~c.Enabled
    THEN [called |-> TRUE, err |-> FALSE, cause |-> NilErr, attempts |-> 0,
          calls |-> ZeroCounts(c.ChatIDs), tx |-> ZeroCounts(c.ChatIDs),
          sent |-> ZeroCounts(c.ChatIDs)]
    ELSE SendLoop(c, out, 1,
                  [done |-> done,
                   lastErr |-> NilErr, calls |-> ZeroCounts(c.ChatIDs),
                   tx |-> ZeroCounts(c.ChatIDs), sent |-> ZeroCounts(c.ChatIDs)])

\* every way the transport can answer the sends of one SendNews call
Outcomes(c) ==
    [1..Max(c.RetryCount, 0) -> [1..Len(c.ChatIDs) -> BOOLEAN]]

NoOutcomes == <<>>

(***************************************************************************)
(* cache (part_003)                                                        *)
(***************************************************************************)
\* fmt.Sprintf("%s:%v", source, id)
generateKey(source, id) == source \o <<":">> \o id

\* the items one Fetch can return: (Source, ID) pairs
News == { [Source |-> <<"s">>, ID |-> <<"1">>], [Source |-> <<"s">>, ID |-> <<"2">>] }

KeyOf(news) == generateKey(news.Source, news.ID)

Keys == { KeyOf(n) : n \in News }

\* time.Time.After
After(t, u) == t > u

\* a Set that does not clamp
ClampNone(ttl) == ttl

\* the `if ttl > 365*24*time.Hour` clamp of Set
ClampTTL(ttl) == IF ttl > OneYear THEN OneYear ELSE ttl

\* Cache.Set: c.items[key] = CacheItem{...}
Set(its, t, source, id, value, ttl) ==
    LET key  == generateKey(source, id)
        item == [Value |-> value, Source |-> source, Timestamp |-> t,
                 ExpireAt |-> t + ClampTTL(ttl)]
    IN  [k \in DOMAIN its \cup {key} |-> IF k = key THEN item ELSE its[k]]

\* a Get that takes the instant of expiry for expired
ExpiredAtOrAfter(t, item) == t >= item.ExpireAt

\* is an entry past its expiry for Get: now.After(item.ExpireAt)
Expired(t, item) == After(t, item.ExpireAt)

\* Cache.Get: the value and found it returns, and whether it started
\* `go c.Delete(source, id)`
Get(its, t, source, id) ==
    LET key == generateKey(source, id) IN
    IF key \notin DOMAIN its
    THEN [value |-> "nil", found |-> FALSE, spawn |-> FALSE]
    ELSE IF Expired(t, its[key])
         THEN [value |-> "nil", found |-> FALSE, spawn |-> TRUE]
         ELSE [value |-> its[key].Value, found |-> TRUE, spawn |-> FALSE]

\* a Delete that empties the map
DeleteAll(its, source, id) == << >>

\* Cache.Delete: delete(c.items, key)
Delete(its, source, id) ==
    LET key == generateKey(source, id) IN
    [k \in DOMAIN its \ {key} |-> its[k]]

\* a sweeper that removes nothing
cleanupNever(its, t) == its

\* a sweeper that takes the instant of expiry for expired
cleanupAtExpiry(its, t) ==
    [k \in { x \in DOMAIN its : t < its[x].ExpireAt } |-> its[k]]

\* Cache.cleanup: delete every entry with now.After(item.ExpireAt)
cleanup(its, t) ==
    [k \in { x \in DOMAIN its : ~After(t, its[x].ExpireAt) } |-> its[k]]

NoItems == [k \in {} |-> 0]
NoGet == [value |-> "nil", found |-> FALSE, spawn |-> FALSE]
NoCommit == [set |-> FALSE, exp |-> 0]

NewsOfKey(k) == CHOOSE n \in News : KeyOf(n) = k

(***************************************************************************)
(* The durable file.  It is absent, or holds the JSON object save wrote    *)
(* (key -> {value, source, timestamp, expire_at}), or holds something that *)
(* is not JSON (a write that failed after os.WriteFile truncated it).      *)
(***************************************************************************)
NoEntries == [k \in {} |-> 0]

FileAbsent == [kind |-> "absent", entries |-> NoEntries]

FileCorrupt == [kind |-> "corrupt", entries |-> NoEntries]

\* can encoding/json encode the value: not a func, a chan, ...
Marshalable(its) == \A k \in DOMAIN its : its[k].Value # "func"

\* json.MarshalIndent(c.items, "", "  "): the fields under their json tags
Marshal(its) ==
    [kind |-> "json",
     entries |-> [k \in DOMAIN its |->
                    [value |-> its[k].Value, source |-> its[k].Source,
                     timestamp |-> its[k].Timestamp, expire_at |-> its[k].ExpireAt]]]

\* what os.WriteFile may do: write the data; fail to open the file; fail
\* after it truncated the file
WriteOutcomes(n) == IF n > 0 THEN {"ok", "open", "write"} ELSE {"ok"}

\* os.WriteFile(c.filePath, data, 0644)
WriteFile(f, data, w) ==
    IF w = "ok" THEN data ELSE IF w = "open" THEN f ELSE FileCorrupt

\* a save that reports success whatever os.WriteFile did
saveSilent(its, f, w) ==
    [file |-> WriteFile(f, Marshal(its), w), err |-> "nil", wrote |-> Marshalable(its)]

\* Cache.save: the file it leaves, the error it returns, and whether it
\* got as far as os.WriteFile
save(its, f, w) ==
    IF ~Marshalable(its)
    THEN [file |-> f, err |-> "marshal", wrote |-> FALSE]
    ELSE [file |-> WriteFile(f, Marshal(its), w),
          err |-> IF w = "ok" THEN "nil" ELSE "write", wrote |-> TRUE]

\* a call of save as part of a step: the file, the environment's remaining
\* faults, and the record that a save failed
Persist(its, w) ==
    LET r == save(its, file, w) IN
    /\ file' = r.file
    /\ faults' = IF r.wrote /\ w # "ok" THEN faults - 1 ELSE faults
    /\ writeFailed' = (writeFailed \/ r.err # "nil")

\* json.Unmarshal(data, &c.items) into the map that is there: the keys of
\* the data are set, the other keys of the map are kept
Unmarshal(its, data) ==
    [k \in DOMAIN its \cup DOMAIN data.entries |->
        IF k \in DOMAIN data.entries
        THEN [Value |-> data.entries[k].value, Source |-> data.entries[k].source,
              Timestamp |-> data.entries[k].timestamp,
              ExpireAt |-> data.entries[k].expire_at]
        ELSE its[k]]

\* the entries Load keeps: not (Timestamp.After(now) ||
\* ExpireAt.After(now.Add(365*24*time.Hour)))
LoadValid(t, item) ==
    ~(After(item.Timestamp, t) \/ After(item.ExpireAt, t + OneYear))

\* Cache.Load under the lock, given the data read: the map and the error
Load(its, data, t) ==
    IF data.kind # "json"
    THEN [items |-> its, err |-> "parse"]
    ELSE LET m == Unmarshal(its, data)
         IN  [items |-> [k \in { x \in DOMAIN m : LoadValid(t, m[x]) } |-> m[k]],
              err |-> "nil"]

NoLoad == [active |-> FALSE, data |-> FileAbsent]

\* no call made yet; of a call: the method, what it was given, the error it
\* returned and how often it called save
NoArgs == [key |-> <<>>, ttl |-> 0, value |-> "nil"]

NoRet == [op |-> "none", args |-> NoArgs, err |-> "nil", saves |-> 0]

\* a constructor that loads the file it finds instead of clearing it
NewCacheLoad(f, t, w) ==
    [items |-> Load(NoItems, f, t).items, file |-> f, err |-> "nil"]

\* NewCache(filePath) where a file f may be: an empty map, then Clear, which
\* saves it; the error is what Clear returned
NewCache(f, t, w) ==
    LET r == save(NoItems, f, w) IN
    [items |-> NoItems, file |-> r.file, err |-> r.err]


(***************************************************************************)
(* fetcher.go.  A source answers a fetch with an error or with a payload;  *)
(* a payload item has the fields the two parsers read: id is the API       *)
(* item's id or the RSS item's GUID, link and published exist in RSS       *)
(* payloads only.                                                          *)
(***************************************************************************)
NoTime == [nil |-> TRUE, t |-> 0]

APIPayloads ==
    { [id |-> i, link |-> <<>>, title |-> <<"t">>, content |-> <<"c">>,
       published |-> NoTime] : i \in { <<"1">>, <<"2">> } }

RSSPayloads ==
    { [id |-> <<"1">>, link |-> <<"l">>, title |-> <<"t">>, content |-> <<"c">>,
       published |-> NoTime],
      [id |-> <<"2">>, link |-> <<>>, title |-> <<"t">>, content |-> <<"c">>,
       published |-> [nil |-> FALSE, t |-> 1]],
      [id |-> <<>>, link |-> <<"l">>, title |-> <<"t">>, content |-> <<"c">>,
       published |-> NoTime] }

PayloadLists(P) == UNION { [1..n -> P] : n \in 0..MaxNews }

\* what a configured source can answer: ok is FALSE for a failed request, a
\* bad status, an unreadable body or an API status other than 0
SourceAnswers(P) ==
    { [url |-> <<"s">>, ok |-> o, list |-> l] :
        o \in BOOLEAN, l \in PayloadLists(P) } \ 
    { [url |-> <<"s">>, ok |-> FALSE, list |-> l] : l \in PayloadLists(P) \ {<<>>} }

\* cfg.API and cfg.RSS with what every source answers
Feeds ==
    UNION { UNION { [api : [1..na -> SourceAnswers(APIPayloads)],
                     rss : [1..nr -> SourceAnswers(RSSPayloads)]] :
                      nr \in 0..(MaxSources - na) } :
              na \in 0..MaxSources }

NoFeeds == [api |-> <<>>, rss |-> <<>>]

\* the time.Time zero value is no moment of the model's clock
ZeroTime == 0 - 1

\* APISource.Fetch: the News built from one item of response.Data.List
APINews(src, item, t) ==
    [ID |-> item.id, OriginalTitle |-> item.title,
     OriginalContent |-> item.content, Link |-> <<>>,
     Source |-> src.url, CreateTime |-> t]

\* RSSSource.Fetch: the News built from one item of feed.Items
RSSNews(src, item, t) ==
    [ID |-> IF item.id = <<>> THEN item.link ELSE item.id,
     OriginalTitle |-> item.title,
     OriginalContent |-> item.content, Link |-> item.link,
     Source |-> src.url,
     CreateTime |-> IF item.published.nil THEN t ELSE item.published.t]

\* APISource.Fetch at time t
APISourceFetch(src, t) ==
    IF ~src.ok THEN [err |-> TRUE, news |-> <<>>]
    ELSE [err |-> FALSE,
          news |-> [i \in 1..Len(src.list) |-> APINews(src, src.list[i], t)]]

\* RSSSource.Fetch at time t
RSSSourceFetch(src, t) ==
    IF ~src.ok THEN [err |-> TRUE, news |-> <<>>]
    ELSE [err |-> FALSE,
          news |-> [i \in 1..Len(src.list) |-> RSSNews(src, src.list[i], t)]]

SourceFetch(kind, src, t) ==
    IF kind = "api" THEN APISourceFetch(src, t) ELSE RSSSourceFetch(src, t)

\* a fetcher that gives up on its sources at the first that fails
AfterSourceErrorBreak(srcs, i) == Len(srcs) + 1

\* after a source failed: `continue`, the next source
AfterSourceError(srcs, i) == i + 1

\* one `for _, source := range` loop of Fetcher.Fetch, from source i on; acc
\* is allNews so far and the sources called so far
RECURSIVE FetchSources(_, _, _, _, _)
FetchSources(kind, srcs, t, i, acc) ==
    IF i > Len(srcs) THEN acc
    ELSE LET r == SourceFetch(kind, srcs[i], t)
             called == Append(acc.calls, i)
         IN  IF r.err
             THEN FetchSources(kind, srcs, t, AfterSourceError(srcs, i),
                               [allNews |-> acc.allNews, calls |-> called])
             ELSE FetchSources(kind, srcs, t, i + 1,
                               [allNews |-> acc.allNews \o r.news, calls |-> called])

\* Fetcher.Fetch: the API sources, then the RSS sources; nil for no news, and
\* nil for the error in every return
Fetch(f, t) ==
    LET a == FetchSources("api", f.api, t, 1, [allNews |-> <<>>, calls |-> <<>>])
        b == FetchSources("rss", f.rss, t, 1, [allNews |-> a.allNews, calls |-> <<>>])
    IN  [called |-> TRUE, news |-> b.allNews, err |-> "nil",
         apiCalls |-> a.calls, rssCalls |-> b.calls]

NoFetch == [called |-> FALSE, news |-> <<>>, err |-> "nil",
            apiCalls |-> <<>>, rssCalls |-> <<>>]

(***************************************************************************)
(* analyzer.go                                                             *)
(***************************************************************************)
\* what analyzeNewsItem meets for each item of the batch: "ok" when a request
\* was answered, "fail" when every request of the retry loop failed
AIOutcomes(n) == [1..n -> {"ok", "fail"}]

\* the error analyzeNewsItem returns, "nil" for none
analyzeNewsItem(o) == IF o = "ok" THEN "nil" ELSE "request"

\* Analyzer.AnalyzeNews: a failed item is logged and skipped (`continue`), and
\* the function returns nil after the loop
AnalyzeNews(enabled, outs) ==
    IF ~enabled \/ Len(outs) = 0
    THEN [called |-> TRUE, failed |-> 0, err |-> "nil"]
    ELSE [called |-> TRUE,
          failed |-> Cardinality({ i \in 1..Len(outs) : analyzeNewsItem(outs[i]) # "nil" }),
          err |-> "nil"]

NoAI == [called |-> FALSE, failed |-> 0, err |-> "nil"]

\* resp.Choices[0].Message.Content of an answered request
AIText == <<"a">>

\* the item analyzeNewsItem leaves behind: an answered request stores the
\* answer in news.TranslatedContent
Analyzed(news, o) ==
    IF analyzeNewsItem(o) = "nil"
    THEN [news EXCEPT !.TranslatedContent = AIText]
    ELSE news

\* cleanText of formatMessage, on texts as sequences of tokens: <br>, <p>
\* and </p> become a newline, <img and <a become a marker, </a> is dropped
RECURSIVE cleanText(_)
cleanText(text) ==
    IF text = <<>> THEN <<>>
    ELSE LET h == Head(text)
             r == cleanText(Tail(text))
         IN  IF h \in {"<br>", "<p>", "</p>"} THEN <<"\n">> \o r
             ELSE IF h = "<img" THEN <<"[img]">> \o r
             ELSE IF h = "<a" THEN <<"[link]">> \o r
             ELSE IF h = "</a>" THEN r
             ELSE <<h>> \o r

\* news.CreateTime.Format("2006-01-02 15:04") for the moments of the model
FormatTime(t) == IF t = 0 THEN <<"0">> ELSE <<"1">>

\* Sender.formatMessage
formatMessage(news) ==
    <<"title">> \o news.OriginalTitle
        \o <<"time">> \o FormatTime(news.CreateTime)
        \o <<"link">> \o news.Link
        \o <<"summary">> \o cleanText(news.OriginalContent)
        \o (IF news.Analysis # <<>> THEN <<"AI">> \o news.Analysis ELSE <<>>)

\* the items analyzeNewsItem can be given: Fetch leaves Analysis and the
\* translated fields empty, a translator may have filled TranslatedContent
Contents ==
    UNION { [1..n -> {"c", "<br>", "<a", "</a>"}] : n \in 1..2 }

NewsItems ==
    [ID : { <<"1">> }, Source : { <<"s">> }, OriginalTitle : { <<"t">> },
     OriginalContent : Contents, TranslatedTitle : { <<>> },
     TranslatedContent : { <<>>, <<"x">> }, Analysis : { <<>> },
     Link : { <<>>, <<"l">> }, CreateTime : {0, 1}]

NoNews == [ID |-> <<>>, Source |-> <<>>, OriginalTitle |-> <<>>,
           OriginalContent |-> <<>>, TranslatedTitle |-> <<>>,
           TranslatedContent |-> <<>>, Analysis |-> <<>>, Link |-> <<>>,
           CreateTime |-> 0]

NoAnalysis == [called |-> FALSE, out |-> "fail", before |-> NoNews,
               after |-> NoNews, message |-> <<>>]

\* (source, id) pairs whose source or id holds the ':' of generateKey
Pairs ==
    [Source : { <<"a">>, <<"a", ":", "b">> }, ID : { <<"c">>, <<"b", ":", "c">> }]

NoPair == [Source |-> <<>>, ID |-> <<>>]

NoKeyOps == [sets |-> {}, last |-> NoPair]

(***************************************************************************)
(* models.NewsCache (sender.go 263-314)                                    *)
(***************************************************************************)
Callers == {1, 2}

IdlePc == [at |-> "idle", id |-> <<>>]

NoStamps == << >>

Unlocked == [readers |-> {}, writer |-> 0]

InitExt ==
    /\ fetched = NoFetch
    /\ cycles = 0
    /\ aiRes = NoAI
    /\ ncItems = NoStamps
    /\ ncLock = Unlocked
    /\ ncPc = [t \in Callers |-> IdlePc]
    /\ analysed = NoAnalysis
    /\ keyOps = NoKeyOps

(***************************************************************************)
(* State after construction.  NewCache clears the cache; App.Run has not   *)
(* yet seen a tick.                                                        *)
(***************************************************************************)
Configs ==
    { c \in [TTL : TTLs, RetryCount : RetryCounts, ChatIDs : ChatIDLists,
              AI : BOOLEAN, Enabled : BOOLEAN] :
        validateConfig(c) }

\* the polling cycle against the cache: every cache.ttl, one recipient, one attempt
CycleConfigs ==
    { c \in Configs : c.RetryCount = 1 /\ c.ChatIDs = <<<<"4", "2">>>> /\ ~c.AI
                     /\ c.Enabled }

\* the polling cycle against the sender: every retry.count, two recipients
DeliverConfigs ==
    { c \in Configs : c.TTL = 1 /\ Len(c.ChatIDs) = 2 /\ ~c.AI /\ c.Enabled }

\* SendNews reads nothing of cache.ttl
SenderConfigs == { c \in Configs : c.TTL = 0 /\ ~c.AI /\ c.Enabled }

InitBase ==
    /\ now = 0
    /\ items = NoItems
    /\ pendingDelete = [k \in Keys |-> 0]
    /\ staleDelete = [k \in Keys |-> 0]
    /\ pc = "idle"
    /\ newsList = <<>>
    /\ newNews = <<>>
    /\ got = NoGet
    /\ sendRes = NoSend
    /\ sendIn = NoOutcomes
    /\ committed = [k \in Keys |-> NoCommit]
    /\ delivered = {}
    /\ failed = {}
    /\ file = Marshal(NoItems)
    /\ writeFailed = FALSE
    /\ loadBuf = NoLoad
    /\ ret = NoRet
    /\ tick = 0
    /\ sig = FALSE
    /\ mainPc = "signal"
    /\ loopPc = "select"
    /\ inFlight = 0
    /\ InitExt

InitState == InitBase /\ feeds = NoFeeds

\* main: ctx := context.Background()
InitCtx == ctx = "Background"

Init == cfg \in CycleConfigs /\ faults = 0 /\ InitCtx /\ InitState

(***************************************************************************)
(* App.processNews (main.go 168-232), one cycle at a time.  The two range  *)
(* loops are kept as the part of the slice still to visit: newsList is     *)
(* what the filter loop has yet to look up, newNews is the new batch while *)
(* it is being built and then what the delivery loop has yet to send.      *)
(***************************************************************************)
\* what Fetcher.Fetch can return: any batch, repeats included
FetchResults == UNION { [1..n -> News] : n \in 0..MaxNews }

\* processNews returns: back to the select of App.Run
EndCycle ==
    /\ pc' = "idle"
    /\ newsList' = <<>>
    /\ newNews' = <<>>
    /\ delivered' = {}

\* case <-ticker.C: processNews starts and calls Fetch
StartCycle ==
    /\ pc = "idle"
    /\ \E list \in FetchResults :
         IF Len(list) = 0
         THEN UNCHANGED cycleVars
         ELSE /\ pc' = "filter"
              /\ newsList' = list
              /\ newNews' = <<>>
              /\ got' = NoGet
    /\ UNCHANGED <<cfg, extVars, now, cacheVars, sendRes, sendIn, histVars>>
    /\ UNCHANGED <<storeVars, loadVars, runVars>>

\* one turn of the filter loop: a.cache.Get(news.Source, news.ID)
FilterStep ==
    /\ pc = "filter"
    /\ LET news == Head(newsList)
           k    == KeyOf(news)
           r    == Get(items, now, news.Source, news.ID)
           nn   == IF r.found THEN newNews ELSE Append(newNews, news)
       IN  /\ r.spawn => pendingDelete[k] < MaxPending
           /\ pendingDelete' = IF r.spawn
                               THEN [pendingDelete EXCEPT ![k] = @ + 1]
                               ELSE pendingDelete
           /\ got' = r
           /\ IF Len(newsList) > 1
              THEN /\ newsList' = Tail(newsList)
                   /\ newNews' = nn
                   /\ UNCHANGED <<pc, delivered>>
              ELSE IF Len(nn) = 0
                   THEN EndCycle
                   ELSE /\ pc' = IF cfg.AI THEN "ai" ELSE "send"
                        /\ newsList' = <<>>
                        /\ newNews' = nn
                        /\ UNCHANGED delivered
    /\ UNCHANGED <<cfg, extVars, now, items, staleDelete, sendRes, sendIn, committed, failed>>
    /\ UNCHANGED <<storeVars, loadVars, runVars>>

\* `if a.cfg.AI != nil && a.cfg.AI.Enabled`: a.analyzer.AnalyzeNews(ctx, newNews),
\* and `return err` when it returned one
AnalyzeStep ==
    /\ pc = "ai"
    /\ \E outs \in AIOutcomes(Len(newNews)) : aiRes' = AnalyzeNews(cfg.AI, outs)
    /\ IF aiRes'.err # "nil"
       THEN EndCycle /\ got' = NoGet
       ELSE pc' = "send" /\ UNCHANGED <<newsList, newNews, got, delivered>>
    /\ UNCHANGED <<cfg, now, cacheVars, sendRes, sendIn, committed, failed>>
    /\ UNCHANGED <<storeVars, loadVars, runVars, pureVars, feeds, fetched, cycles, ncVars>>

\* a.sender.SendNews(ctx, news) for the item the delivery loop is at
SendStep ==
    /\ pc = "send"
    /\ \E out \in Outcomes(cfg) : sendRes' = SendNews(ctx = "Canceled", cfg, out)
    /\ pc' = "sent"
    /\ UNCHANGED <<cfg, extVars, now, cacheVars, newsList, newNews, got, sendIn, histVars>>
    /\ UNCHANGED <<storeVars, loadVars, runVars>>

\* a cycle that commits whatever SendNews returned
ShouldCommitAlways(res) == TRUE

\* `if err := a.sender.SendNews(...); err != nil { continue }`
ShouldCommit(res) == ~res.err

\* a delivery loop that gives up on the batch at the first failed delivery
RestAbort(batch, res) == IF res.err THEN <<>> ELSE Tail(batch)

\* `continue`, or the end of the loop body: the range goes to the next item
Rest(batch, res) == Tail(batch)

\* the rest of the loop body: skip the item, or a.cache.Set(..., true, ttl)
CommitStep ==
    /\ pc = "sent"
    /\ LET news == Head(newNews)
           k    == KeyOf(news)
           done == IF ~sendRes.err THEN delivered \cup {k} ELSE delivered
       IN  /\ IF ShouldCommit(sendRes)
              THEN /\ items' = Set(items, now, news.Source, news.ID, "true", cfg.TTL)
                   /\ staleDelete' = [staleDelete EXCEPT ![k] = pendingDelete[k]]
                   /\ committed' = [committed EXCEPT
                                      ![k] = [set |-> TRUE, exp |-> items'[k].ExpireAt]]
                   /\ \E w \in WriteOutcomes(faults) : Persist(items', w)
              ELSE UNCHANGED <<items, staleDelete, committed, storeVars>>
           /\ failed' = IF ~sendRes.err THEN failed \ {k}
                        ELSE IF k \in delivered THEN failed
                        ELSE failed \cup {k}
           /\ IF Len(Rest(newNews, sendRes)) > 0
              THEN /\ pc' = "send"
                   /\ newNews' = Rest(newNews, sendRes)
                   /\ delivered' = done
                   /\ UNCHANGED <<newsList, got>>
              ELSE EndCycle /\ got' = NoGet
    /\ sendRes' = NoSend
    /\ UNCHANGED <<cfg, extVars, now, pendingDelete, sendIn, loadVars, runVars>>

(***************************************************************************)
(* The cache's goroutines.                                                 *)
(***************************************************************************)
\* a `go c.Delete(source, id)` started by Get gets to run
DeferredDelete ==
    /\ \E k \in Keys, old \in BOOLEAN :
         /\ pendingDelete[k] > 0
         /\ IF old THEN staleDelete[k] > 0 ELSE pendingDelete[k] > staleDelete[k]
         /\ items' = Delete(items, NewsOfKey(k).Source, NewsOfKey(k).ID)
         /\ pendingDelete' = [pendingDelete EXCEPT ![k] = @ - 1]
         /\ staleDelete' = IF old THEN [staleDelete EXCEPT ![k] = @ - 1] ELSE staleDelete
    /\ \E w \in WriteOutcomes(faults) : Persist(items', w)
    /\ UNCHANGED <<cfg, extVars, now, cycleVars, sendRes, sendIn, histVars, loadVars, runVars>>

\* startCleanup: the ticker fires and cleanup runs; it saves when it
\* removed something, and drops the error of that save
Sweep ==
    /\ items' = cleanup(items, now)
    /\ IF items' # items
       THEN \E w \in WriteOutcomes(faults) : Persist(items', w)
       ELSE UNCHANGED storeVars
    /\ UNCHANGED <<cfg, extVars, now, pendingDelete, staleDelete, cycleVars, sendRes, sendIn, histVars>>
    /\ UNCHANGED <<loadVars, runVars>>

\* the clock moves
Tick ==
    /\ now < MaxTime
    /\ now' = now + 1
    /\ UNCHANGED <<cfg, extVars, cacheVars, cycleVars, sendRes, sendIn, histVars>>
    /\ UNCHANGED <<storeVars, loadVars, runVars>>

Next ==
    \/ StartCycle
    \/ FilterStep
    \/ SendStep
    \/ CommitStep
    \/ DeferredDelete
    \/ Sweep
    \/ Tick

Spec == Init /\ [][Next]_vars

(***************************************************************************)
(* The polling cycle against the sender: every retry.count, two            *)
(* recipients, every way the transport can answer, within a time span in   *)
(* which no entry expires.                                                 *)
(***************************************************************************)
InitDeliver == cfg \in DeliverConfigs /\ faults = 0 /\ InitCtx /\ InitState

NextDeliver ==
    \/ StartCycle
    \/ FilterStep
    \/ SendStep
    \/ CommitStep

SpecDeliver == InitDeliver /\ [][NextDeliver]_vars

(***************************************************************************)
(* SendNews on its own: every validated sender configuration, every way    *)
(* the transport can answer.                                               *)
(***************************************************************************)
InitSend == cfg \in SenderConfigs /\ faults = 0 /\ InitCtx /\ InitState

CallSendNews ==
    /\ \E out \in Outcomes(cfg) :
         /\ sendIn' = out
         /\ sendRes' = SendNews(ctx = "Canceled", cfg, out)
    /\ UNCHANGED <<cfg, extVars, now, cacheVars, cycleVars, histVars>>
    /\ UNCHANGED <<storeVars, loadVars, runVars>>

NextSend == CallSendNews

SpecSend == InitSend /\ [][NextSend]_vars

(***************************************************************************)
(* App.Run (main.go 132-166): its own goroutine waits for a signal and     *)
(* then for the WaitGroup; the goroutine it starts runs the select loop    *)
(* and calls processNews from it.  main hands Run context.Background();    *)
(* another caller of Run may hand it a context it cancels later.           *)
(***************************************************************************)
Contexts == {"Background", "WithCancel"}

\* a loop that starts processNews in a goroutine of its own and goes back to
\* the select
DispatchedAsync(p) == p

\* where the loop goroutine is once it has called app.processNews(ctx)
Dispatched(p) == "call"

\* the runtime sends a tick on ticker.C; a tick that finds the channel full
\* is dropped
TickerFire ==
    /\ mainPc # "returned"
    /\ tick' = 1
    /\ UNCHANGED <<cfg, extVars, now, cacheVars, cycleVars, sendRes, sendIn, histVars,
                   storeVars, loadVars, ctx, sig, mainPc, loopPc, inFlight>>

\* a SIGINT or SIGTERM arrives and is put on sigChan
Signal ==
    /\ ~sig
    /\ sig' = TRUE
    /\ UNCHANGED <<cfg, extVars, now, cacheVars, cycleVars, sendRes, sendIn, histVars,
                   storeVars, loadVars, ctx, tick, mainPc, loopPc, inFlight>>

\* the holder of a cancellable context cancels it
CtxCancel ==
    /\ ctx = "WithCancel"
    /\ ctx' = "Canceled"
    /\ UNCHANGED <<cfg, extVars, now, cacheVars, cycleVars, sendRes, sendIn, histVars,
                   storeVars, loadVars, tick, sig, mainPc, loopPc, inFlight>>

\* <-sigChan, then wg.Wait()
MainSignal ==
    /\ mainPc = "signal"
    /\ sig
    /\ mainPc' = "wait"
    /\ UNCHANGED <<cfg, extVars, now, cacheVars, cycleVars, sendRes, sendIn, histVars,
                   storeVars, loadVars, ctx, tick, sig, loopPc, inFlight>>

\* wg.Wait() returns when the loop goroutine is done; return nil, and the
\* deferred ticker.Stop()
MainReturn ==
    /\ mainPc = "wait"
    /\ loopPc = "exited"
    /\ mainPc' = "returned"
    /\ UNCHANGED <<cfg, extVars, now, cacheVars, cycleVars, sendRes, sendIn, histVars,
                   storeVars, loadVars, ctx, tick, sig, loopPc, inFlight>>

\* case <-ctx.Done(): return
LoopDone ==
    /\ loopPc = "select"
    /\ ctx = "Canceled"
    /\ loopPc' = "exited"
    /\ UNCHANGED <<cfg, extVars, now, cacheVars, cycleVars, sendRes, sendIn, histVars,
                   storeVars, loadVars, ctx, tick, sig, mainPc, inFlight>>

\* case <-ticker.C: app.processNews(ctx), up to what Fetch returned; the
\* requests of the sources are made with ctx, so that every source fails and
\* Fetch returns nil once ctx is cancelled
LoopTick ==
    /\ loopPc = "select"
    /\ tick = 1
    /\ tick' = 0
    /\ loopPc' = Dispatched(loopPc)
    /\ inFlight' = inFlight + 1
    /\ \E list \in IF ctx = "Canceled" THEN {<<>>} ELSE FetchResults :
         IF Len(list) = 0
         THEN /\ pc' = "idle"
              /\ newsList' = <<>>
              /\ newNews' = <<>>
              /\ got' = NoGet
         ELSE /\ pc' = "filter"
              /\ newsList' = list
              /\ newNews' = <<>>
              /\ got' = NoGet
    /\ UNCHANGED <<cfg, extVars, now, cacheVars, sendRes, sendIn, histVars,
                   storeVars, loadVars, ctx, sig, mainPc>>

\* processNews has returned: back to the select
LoopReturn ==
    /\ loopPc = "call"
    /\ pc = "idle"
    /\ loopPc' = "select"
    /\ inFlight' = inFlight - 1
    /\ UNCHANGED <<cfg, extVars, now, cacheVars, cycleVars, sendRes, sendIn, histVars,
                   storeVars, loadVars, ctx, tick, sig, mainPc>>

InitRun ==
    /\ cfg \in { c \in CycleConfigs : c.TTL = 1 }
    /\ faults = 0
    /\ ctx \in Contexts
    /\ InitState

\* the steps of Run's own goroutine, and of the loop goroutine
MainStep == MainSignal \/ MainReturn

LoopStep == LoopTick \/ FilterStep \/ SendStep \/ CommitStep \/ LoopReturn \/ LoopDone

NextRun ==
    \/ TickerFire
    \/ Signal
    \/ CtxCancel
    \/ MainSignal
    \/ MainReturn
    \/ LoopTick
    \/ FilterStep
    \/ SendStep
    \/ CommitStep
    \/ LoopReturn
    \/ LoopDone

\* both goroutines are scheduled as long as they can take a step
SpecRun == InitRun /\ [][NextRun]_vars /\ WF_vars(MainStep) /\ WF_vars(LoopStep)

(***************************************************************************)
(* The cache under concurrent callers: one action per method of Cache,     *)
(* each atomic under c.mu, except Load, which reads the file before it     *)
(* takes the lock.  The Do... formulas are the methods; the callers of     *)
(* each specification below add what they pass and what they keep of the   *)
(* result.                                                                 *)
(***************************************************************************)
\* the values a caller may hand to Set; "func" is one encoding/json rejects
Values == {"true", "func"}

\* Cache.Set(source, id, value, ttl), with save
DoSet(n, ttl, v, w) ==
    /\ items' = Set(items, now, n.Source, n.ID, v, ttl)
    /\ staleDelete' = [staleDelete EXCEPT ![KeyOf(n)] = pendingDelete[KeyOf(n)]]
    /\ Persist(items', w)
    /\ UNCHANGED <<cfg, extVars, now, pendingDelete, cycleVars, sendRes, sendIn, histVars,
                   loadBuf, runVars>>

\* Cache.Delete(source, id), with save
DoDelete(n, w) ==
    /\ items' = Delete(items, n.Source, n.ID)
    /\ Persist(items', w)
    /\ UNCHANGED <<cfg, extVars, now, pendingDelete, staleDelete, cycleVars, sendRes,
                   sendIn, histVars, loadBuf, runVars>>

\* Cache.Get(source, id), with the `go c.Delete` it may start
DoGet(n) ==
    LET r == Get(items, now, n.Source, n.ID) IN
    /\ r.spawn => pendingDelete[KeyOf(n)] < MaxPending
    /\ pendingDelete' = IF r.spawn
                        THEN [pendingDelete EXCEPT ![KeyOf(n)] = @ + 1]
                        ELSE pendingDelete
    /\ got' = r
    /\ UNCHANGED <<cfg, extVars, now, items, staleDelete, pc, newsList, newNews, sendRes,
                   sendIn, histVars, storeVars, loadBuf, runVars>>

\* Cache.Clear(), with save
DoClear(w) ==
    /\ items' = NoItems
    /\ Persist(items', w)
    /\ UNCHANGED <<cfg, extVars, now, pendingDelete, staleDelete, cycleVars, sendRes, sendIn,
                   histVars, loadBuf, runVars>>

\* Cache.cleanup(), with the save it makes when it removed something
DoCleanup(w) ==
    /\ items' = cleanup(items, now)
    /\ IF items' # items THEN Persist(items', w) ELSE UNCHANGED storeVars
    /\ UNCHANGED <<cfg, extVars, now, pendingDelete, staleDelete, cycleVars, sendRes, sendIn,
                   histVars, loadBuf, runVars>>

\* Cache.Load, first half: os.ReadFile(c.filePath), outside the lock.  A
\* file that is not there ends the call with the error of ReadFile.
DoLoadRead ==
    /\ ~loadBuf.active
    /\ loadBuf' = IF file.kind = "absent" THEN NoLoad
                  ELSE [active |-> TRUE, data |-> file]
    /\ UNCHANGED <<cfg, extVars, now, cacheVars, cycleVars, sendRes, sendIn, histVars,
                   storeVars, runVars>>

\* Cache.Load, second half: under the lock, Unmarshal and the validity loop
DoLoadFinish ==
    /\ loadBuf.active
    /\ items' = Load(items, loadBuf.data, now).items
    /\ loadBuf' = NoLoad
    /\ UNCHANGED <<cfg, extVars, now, pendingDelete, staleDelete, cycleVars, sendRes, sendIn,
                   histVars, storeVars, runVars>>

\* the callers of the concurrency model: the orchestrator's Set and Get with
\* the configured ttl, Clear, Load
CacheSet ==
    /\ \E n \in News, w \in WriteOutcomes(faults) : DoSet(n, cfg.TTL, "true", w)
    /\ UNCHANGED ret

CacheGet ==
    /\ \E n \in News : DoGet(n)
    /\ UNCHANGED ret

CacheClear ==
    /\ \E w \in WriteOutcomes(faults) : DoClear(w)
    /\ UNCHANGED ret

CacheLoadRead == DoLoadRead /\ UNCHANGED ret

CacheLoadFinish == DoLoadFinish /\ UNCHANGED ret

\* one ttl inside the clamp; the environment may make writes fail
InitCache ==
    /\ cfg \in { c \in CycleConfigs : c.TTL = 1 }
    /\ faults \in 0..MaxFaults
    /\ InitCtx
    /\ InitState

NextCache ==
    \/ CacheSet
    \/ CacheGet
    \/ DeferredDelete
    \/ CacheClear
    \/ CacheLoadRead
    \/ CacheLoadFinish
    \/ Sweep
    \/ Tick

SpecCache == InitCache /\ [][NextCache]_vars

(***************************************************************************)
(* The cache as the program uses it (Set and Get from the orchestrator,    *)
(* the deferred deletes, the sweeper; nothing calls Load), every           *)
(* cache.ttl, no failing write, and a sweeper that is scheduled: its       *)
(* ticker fires every 5 minutes for as long as the process lives.          *)
(***************************************************************************)
InitSweep == cfg \in CycleConfigs /\ faults = 0 /\ InitCtx /\ InitState

NextSweep ==
    \/ CacheSet
    \/ CacheGet
    \/ DeferredDelete
    \/ Sweep
    \/ Tick

SpecSweep == InitSweep /\ [][NextSweep]_vars /\ WF_vars(Sweep)

(***************************************************************************)
(* The methods of Cache one call at a time, from every state of memory and *)
(* file within the bounds: entries written by Set at or before now         *)
(* (immediately expiring or with the full year), a file that is absent,    *)
(* unreadable, or holds for each key nothing, the entry in memory, an      *)
(* older valid entry, one stamped in the future, or one expiring more than *)
(* a year from now.                                                        *)
(***************************************************************************)
MemEntries(t) ==
    { [Value |-> "true", Source |-> n.Source, Timestamp |-> ts, ExpireAt |-> ts + d] :
        n \in News, ts \in 0..t, d \in {0, OneYear} }

MemMaps(t) ==
    UNION { [K -> MemEntries(t)] : K \in SUBSET Keys }

StoredEntries(t) ==
    { [value |-> "true", source |-> <<"s">>, timestamp |-> 0, expire_at |-> OneYear],
      [value |-> "true", source |-> <<"s">>, timestamp |-> t + 1, expire_at |-> t + 1],
      [value |-> "true", source |-> <<"s">>, timestamp |-> t, expire_at |-> t + OneYear + 1] }

FilesFor(its, t) ==
    {FileAbsent, FileCorrupt} \cup
    { [kind |-> "json", entries |-> e] :
        e \in { m \in UNION { [K -> StoredEntries(t) \cup { Marshal(its).entries[k] : k \in DOMAIN its }] :
                                 K \in SUBSET Keys } :
                  \A k \in DOMAIN m :
                     m[k] \in StoredEntries(t) \/ (k \in DOMAIN its /\ m[k] = Marshal(its).entries[k]) } }

\* history of the run that wrote the file: the expiry each stored key was given
CommittedIn(f) ==
    [k \in Keys |-> IF f.kind = "json" /\ k \in DOMAIN f.entries
                    THEN [set |-> TRUE, exp |-> f.entries[k].expire_at]
                    ELSE NoCommit]

InitOps ==
    /\ cfg \in { c \in CycleConfigs : c.TTL = 1 }
    /\ now \in 0..MaxTime
    /\ items \in MemMaps(now)
    /\ file \in FilesFor(items, now)
    /\ faults = MaxFaults
    /\ pendingDelete = [k \in Keys |-> 0]
    /\ staleDelete = [k \in Keys |-> 0]
    /\ pc = "idle"
    /\ newsList = <<>>
    /\ newNews = <<>>
    /\ got = NoGet
    /\ sendRes = NoSend
    /\ sendIn = NoOutcomes
    /\ committed = CommittedIn(file)
    /\ delivered = {}
    /\ failed = {}
    /\ writeFailed = FALSE
    /\ loadBuf = NoLoad
    /\ ret = NoRet
    /\ ctx = "Background"
    /\ tick = 0
    /\ sig = FALSE
    /\ mainPc = "signal"
    /\ loopPc = "select"
    /\ inFlight = 0
    /\ feeds = NoFeeds
    /\ InitExt

CallSet ==
    /\ ret = NoRet
    /\ \E n \in News, ttl \in TTLs, v \in Values, w \in WriteOutcomes(faults) :
         /\ DoSet(n, ttl, v, w)
         /\ ret' = [op |-> "Set", args |-> [key |-> KeyOf(n), ttl |-> ttl, value |-> v],
                    err |-> save(items', file, w).err, saves |-> 1]

CallDelete ==
    /\ ret = NoRet
    /\ \E n \in News, w \in WriteOutcomes(faults) :
         /\ DoDelete(n, w)
         /\ ret' = [op |-> "Delete", args |-> [NoArgs EXCEPT !.key = KeyOf(n)],
                    err |-> save(items', file, w).err, saves |-> 1]

CallCleanup ==
    /\ ret = NoRet
    /\ \E w \in WriteOutcomes(faults) :
         /\ DoCleanup(w)
         /\ ret' = [op |-> "cleanup", args |-> NoArgs, err |-> "nil",
                    saves |-> IF items' # items THEN 1 ELSE 0]

CallLoadRead ==
    /\ ret = NoRet
    /\ DoLoadRead
    /\ ret' = IF file.kind = "absent"
              THEN [op |-> "Load", args |-> NoArgs, err |-> "notexist", saves |-> 0]
              ELSE [op |-> "ReadFile", args |-> NoArgs, err |-> "nil", saves |-> 0]

CallLoadFinish ==
    /\ DoLoadFinish
    /\ ret' = [op |-> "Load", args |-> NoArgs,
               err |-> Load(items, loadBuf.data, now).err, saves |-> 0]

\* the process starts again: NewApp calls NewCache on the file that is there
CallNewCache ==
    /\ ret = NoRet
    /\ \E w \in WriteOutcomes(faults) :
         LET c == NewCache(file, now, w) IN
         /\ items' = c.items
         /\ file' = c.file
         /\ faults' = IF w # "ok" THEN faults - 1 ELSE faults
         /\ writeFailed' = (c.err # "nil")
         /\ ret' = [op |-> "NewCache", args |-> NoArgs, err |-> c.err, saves |-> 1]
    /\ UNCHANGED <<cfg, extVars, now, pendingDelete, staleDelete, cycleVars, sendRes, sendIn,
                   histVars, loadBuf, runVars>>

NextOps ==
    \/ CallSet
    \/ CallDelete
    \/ CallCleanup
    \/ CallLoadRead
    \/ CallLoadFinish
    \/ CallNewCache

SpecOps == InitOps /\ [][NextOps]_vars


(***************************************************************************)
(* Properties.                                                             *)
(***************************************************************************)
\* the step is one turn of the filter loop
FilterTaken == pc = "filter" /\ newsList' # newsList

\* the step is the rest of the delivery loop body, after SendNews returned
CommitTaken == pc = "sent" /\ pc' # "sent"

InBatch(k, batch) == \E n \in 1..Len(batch) : KeyOf(batch[n]) = k

Live(k) == k \in DOMAIN items /\ now <= items[k].ExpireAt

\* C1: an item committed with a TTL T > 0 is not put into the new batch (so no
\* delivery is attempted for it) by a later cycle whose lookup of it runs
\* before T has elapsed since the commit.
C1_IdempotentSuppression ==
    [][FilterTaken =>
         LET k == KeyOf(Head(newsList)) IN
         (cfg.TTL > 0 /\ committed[k].set /\ now < committed[k].exp)
             => ~InBatch(k, newNews')]_vars

\* C2: a Set happens only in the delivery loop, for the item whose SendNews
\* just returned success; an item whose SendNews returned an error is not Set;
\* and an item whose delivery failed is put into the new batch again by the
\* next cycle that fetches it.
C2_RetryExhaustionCommitOrder ==
    [][/\ \A k \in DOMAIN items' :
            (k \notin DOMAIN items \/ items'[k] # items[k])
                => (CommitTaken /\ sendRes.called /\ ~sendRes.err
                    /\ k = KeyOf(Head(newNews)))
       /\ (CommitTaken /\ sendRes.err) => (items' = items /\ committed' = committed)
       /\ (FilterTaken /\ KeyOf(Head(newsList)) \in failed)
              => (InBatch(KeyOf(Head(newsList)), newNews') /\ pc' \in {"filter", "send"})
      ]_vars

\* a later cycle is about to deliver again an item whose delivery failed earlier
C2_Witness ==
    /\ pc = "send"
    /\ KeyOf(Head(newNews)) \in failed
    /\ \E k \in DOMAIN items : k # KeyOf(Head(newNews))

\* the sends of attempt k all succeed
AllSucceed(c, out, k) ==
    \A j \in 1..Len(c.ChatIDs) : sendToChat(FALSE, c.ChatIDs[j], out[k][j]) = "nil"

\* the recipients whose send fails in attempt k
FailsIn(c, out, k) ==
    { j \in 1..Len(c.ChatIDs) : sendToChat(FALSE, c.ChatIDs[j], out[k][j]) # "nil" }

MaxOf(S) == CHOOSE x \in S : \A y \in S : y <= x

\* C3: SendNews returns nil at the first attempt k <= retry.count in which
\* every recipient's send succeeded, first attempt or retry, and makes no
\* attempt after it.
C3_SuccessOnAnyAttempt ==
    sendRes.called =>
        \A k \in 1..cfg.RetryCount :
            (AllSucceed(cfg, sendIn, k) /\ \A m \in 1..(k - 1) : ~AllSucceed(cfg, sendIn, m))
                => (~sendRes.err /\ sendRes.attempts = k)

\* C4: when some recipient fails in every attempt, SendNews makes retry.count
\* attempts, calls sendToChat for every recipient in each of them, and returns
\* an error made from the last failure of the last attempt.
C4_RetryExhaustion ==
    (/\ sendRes.called
     /\ cfg.RetryCount >= 1
     /\ \A k \in 1..cfg.RetryCount : FailsIn(cfg, sendIn, k) # {})
        => LET n == cfg.RetryCount
               j == MaxOf(FailsIn(cfg, sendIn, n))
           IN  /\ sendRes.err
               /\ sendRes.attempts = n
               /\ \A r \in 1..Len(cfg.ChatIDs) : sendRes.calls[r] = n
               /\ sendRes.cause = [kind |-> sendToChat(FALSE, cfg.ChatIDs[j], sendIn[n][j]),
                                   chat |-> j, attempt |-> n]

\* retries exhausted with two recipients: the first succeeded at least once and
\* was sent to again, the second, listed after a failed one, was still called
C4_Witness ==
    /\ sendRes.called
    /\ cfg.RetryCount = MaxRetry
    /\ Len(cfg.ChatIDs) = 2
    /\ \A k \in 1..cfg.RetryCount : FailsIn(cfg, sendIn, k) # {}
    /\ 1 \in FailsIn(cfg, sendIn, 1)
    /\ sendRes.sent[1] >= 1
    /\ sendRes.calls[2] = MaxRetry
    /\ sendRes.err

\* recipient a failed every time it was sent to, recipient b never failed
PartialFailure(res, a, b) ==
    /\ res.called
    /\ res.calls[a] > 0
    /\ res.sent[a] = 0
    /\ res.sent[b] = res.calls[b]

\* C5: with recipients {A, B}, every send to A failing and every send to B
\* succeeding, SendNews returns an error after retry.count attempts, B was
\* sent the message once per attempt, and the item is not committed.
C5_PartialRecipientFailure ==
    [][(/\ CommitTaken
        /\ \E a, b \in 1..Len(cfg.ChatIDs) : a # b /\ PartialFailure(sendRes, a, b))
          => \A a, b \in 1..Len(cfg.ChatIDs) :
               (a # b /\ PartialFailure(sendRes, a, b))
                 => /\ sendRes.err
                    /\ sendRes.attempts = cfg.RetryCount
                    /\ sendRes.sent[b] = cfg.RetryCount
                    /\ items' = items
                    /\ committed' = committed]_vars

\* SendNews has returned: A, listed first, failed in each of two attempts or
\* more, and B received the message as often
C5_Witness ==
    /\ pc = "sent"
    /\ cfg.RetryCount >= 2
    /\ PartialFailure(sendRes, 1, 2)
    /\ sendRes.tx[1] = cfg.RetryCount
    /\ sendRes.sent[2] = cfg.RetryCount
    /\ KeyOf(Head(newNews)) \notin DOMAIN items

\* C6: a recipient whose identifier is empty or does not parse is called at
\* most once in a SendNews call, and the other recipients are still sent
\* the message.
C6_PermanentRecipientFailure ==
    sendRes.called =>
        \A j \in 1..Len(cfg.ChatIDs) :
            ~ReachesTransport(cfg.ChatIDs[j])
                => /\ sendRes.calls[j] <= 1
                   /\ \A r \in 1..Len(cfg.ChatIDs) :
                        (ReachesTransport(cfg.ChatIDs[r]) /\ sendRes.attempts >= 1)
                            => sendRes.tx[r] >= 1

\* C7: Get returns found = true, with the entry's value, exactly when the key
\* has an entry and now <= expires_at, whatever the sweeper, the deferred
\* deletes and the commits did before.
C7_GetFoundIffLive ==
    [][FilterTaken =>
         LET k == KeyOf(Head(newsList)) IN
         /\ got'.found = Live(k)
         /\ got'.value = IF Live(k) THEN items[k].Value ELSE "nil"]_vars

\* in one filter loop Get reported an expired entry absent (and started its
\* removal), then reported a live entry found
C7_Witness ==
    /\ got.found
    /\ Len(newNews) = 1
    /\ KeyOf(newNews[1]) \in DOMAIN items
    /\ now > items[KeyOf(newNews[1])].ExpireAt
    /\ pendingDelete[KeyOf(newNews[1])] > 0

\* C8: a removal that Get deferred never deletes an entry written by a Set on
\* the key that completed after that Get returned.
C8_DeferredRemovalOrder ==
    [][\A k \in Keys : staleDelete'[k] < staleDelete[k] => k \notin DOMAIN items]_vars

\* C9: Set at time now leaves created_at = now and
\* expires_at = now + min(ttl, 365 days) for the key, whatever was there
\* before, and leaves the other entries alone.
C9_TTLClamp ==
    [][(CommitTaken /\ ~sendRes.err) =>
         LET k == KeyOf(Head(newNews)) IN
         /\ k \in DOMAIN items'
         /\ items'[k].Timestamp = now
         /\ items'[k].ExpireAt = now + Min(cfg.TTL, OneYear)
         /\ (cfg.TTL > OneYear => items'[k].ExpireAt = now + OneYear)
         /\ items'[k].Value = "true"
         /\ DOMAIN items' = DOMAIN items \cup {k}
         /\ \A o \in DOMAIN items \ {k} : items'[o] = items[o]]_vars

\* a ttl beyond the clamp: an entry written after the clock moved expires
\* exactly 365 days after it was written
C9_Witness ==
    /\ cfg.TTL > OneYear
    /\ \E k \in DOMAIN items :
         /\ items[k].Timestamp > 0
         /\ items[k].ExpireAt = items[k].Timestamp + OneYear
         /\ committed[k].set

\* C10: every entry of the cache has expires_at > created_at.
C10_ExpiresAfterCreated ==
    \A k \in DOMAIN items : items[k].ExpireAt > items[k].Timestamp

\* C11: whenever no cache method is running under the lock and no save has
\* failed, the file holds exactly the in-memory map, after any interleaving of
\* Set, Get's deferred Delete, Clear, Load and the sweeper.
C11_MemoryMatchesFile ==
    ~writeFailed => file = Marshal(items)

\* the step is a call of the cache method op, from call to return
Called(op) == ret.op = "none" /\ ret'.op = op

\* C12: Set returns an error exactly when its save failed (the write was made
\* to fail, or the map could not be encoded); even then the map holds the new
\* entry, which Get finds as long as it has not expired.
C12_SetErrorIffWriteFailed ==
    [][Called("Set") =>
         LET k == ret'.args.key
             n == NewsOfKey(k) IN
         /\ (ret'.err # "nil") <=> (faults' < faults \/ ~Marshalable(items'))
         /\ (ret'.err # "nil") <=> writeFailed'
         /\ k \in DOMAIN items'
         /\ items'[k] = [Value |-> ret'.args.value, Source |-> n.Source, Timestamp |-> now,
                         ExpireAt |-> now + Min(ret'.args.ttl, OneYear)]
         /\ Get(items', now, n.Source, n.ID).found = (ret'.args.ttl >= 0)
         /\ (ret'.args.ttl >= 0 => Get(items', now, n.Source, n.ID).value = ret'.args.value)
      ]_vars

\* Set has returned an error for a write that failed: the file is not what is
\* in memory, the entry is in memory and live
C12_Witness ==
    /\ ret.op = "Set"
    /\ ret.err = "write"
    /\ ret.args.value = "true"
    /\ faults < MaxFaults
    /\ file # Marshal(items)
    /\ ret.args.key \in DOMAIN items
    /\ now <= items[ret.args.key].ExpireAt

\* C13: one sweep removes exactly the entries with expires_at < now, leaves
\* every other entry as it was, and calls save once if it removed an entry
\* (the file is then the map that is left, unless the write failed) and does
\* not touch the file otherwise.
C13_SweepFrame ==
    [][Called("cleanup") =>
         LET gone == { k \in DOMAIN items : items[k].ExpireAt < now } IN
         /\ DOMAIN items' = DOMAIN items \ gone
         /\ \A k \in DOMAIN items' : items'[k] = items[k]
         /\ ret'.saves = IF gone # {} THEN 1 ELSE 0
         /\ gone = {} => file' = file /\ faults' = faults
         /\ (gone # {} /\ faults' = faults) => file' = Marshal(items')
      ]_vars

\* a sweep removed an expired entry, kept one that expires at this instant,
\* and wrote the file once
C13_Witness ==
    /\ ret.op = "cleanup"
    /\ ret.saves = 1
    /\ \E k \in DOMAIN items : items[k].ExpireAt = now
    /\ Cardinality(DOMAIN items) = 1
    /\ file = Marshal(items)
    /\ faults = MaxFaults

\* the file holds an entry for k whose expiry has passed
StoredExpired(k) ==
    file.kind = "json" /\ k \in DOMAIN file.entries /\ file.entries[k].expire_at < now

LoadReturns == loadBuf.active /\ ~loadBuf'.active

\* C15: when Load returns nil, the in-memory map is exactly the entries of
\* the file it read that have created_at <= now and
\* expires_at <= now + 365 days, each unchanged, and nothing else.
C15_LoadExactlyValidStored ==
    [][(LoadReturns /\ ret'.err = "nil") =>
         LET stored == loadBuf.data.entries
             valid  == { k \in DOMAIN stored :
                           /\ stored[k].timestamp <= now
                           /\ stored[k].expire_at <= now + OneYear } IN
         /\ DOMAIN items' = valid
         /\ \A k \in valid :
              items'[k] = [Value |-> stored[k].value, Source |-> stored[k].source,
                          Timestamp |-> stored[k].timestamp,
                          ExpireAt |-> stored[k].expire_at]
      ]_vars

\* C16: Load on a cache whose file does not exist returns no error and leaves
\* an empty cache empty.
C16_LoadAbsentFile ==
    [][(Called("Load") /\ file.kind = "absent") =>
         /\ ret'.err = "nil"
         /\ items = NoItems => items' = NoItems
      ]_vars

\* C17: NewCache on a path whose file holds entries returns a cache whose map
\* and file are both empty: Get reports no key found, whatever an earlier
\* run committed and however long it had to live.
C17_StartupWipe ==
    [][(Called("NewCache") /\ ret'.err = "nil") =>
         /\ items' = NoItems
         /\ file' = Marshal(NoItems)
         /\ \A n \in News : ~Get(items', now', n.Source, n.ID).found
      ]_vars

\* NewCache has returned a cache; an earlier run had committed an entry,
\* stored in the file, that would still be live
C17_Witness ==
    /\ ret.op = "NewCache"
    /\ ret.err = "nil"
    /\ \E k \in Keys : committed[k].set /\ now < committed[k].exp
                          /\ ~Get(items, now, NewsOfKey(k).Source, NewsOfKey(k).ID).found
    /\ file = Marshal(NoItems)

\* C18: after a signal has been delivered, Run eventually returns (and with
\* it the process exits), no cycle being in flight then.
C18_RunReturnsAfterSignal ==
    sig ~> (mainPc = "returned" /\ inFlight = 0)

\* the step is the loop taking a tick from ticker.C, that is, a call of
\* processNews
TickTaken == tick = 1 /\ tick' = 0

\* C19: once Run has received the signal, no call of processNews starts.
C19_NoCycleAfterSignal ==
    [][TickTaken => mainPc = "signal"]_vars

\* C20: at most one call of processNews is in flight: none is entered while
\* another has not returned, however many ticks fall into a cycle.
C20_OneCycleInFlight ==
    /\ inFlight <= 1
    /\ pc # "idle" => inFlight = 1
    /\ loopPc = "select" => inFlight = 0

\* a tick is waiting in ticker.C while a cycle that a tick started is
\* delivering
C20_Witness ==
    /\ inFlight = 1
    /\ pc = "sent"
    /\ tick = 1
    /\ loopPc = "call"

\* the step is processNews returning to the loop of Run
CycleEnds == inFlight' < inFlight

\* C21: a tick that fired while a cycle was running is discarded: when the
\* cycle ends no tick is waiting, so that the next cycle starts only at a tick
\* fired after that end.
C21_MidCycleTickDiscarded ==
    [][CycleEnds => tick' = 0]_vars


(***************************************************************************)
(* Fetcher.Fetch as a function of what the configured sources answer: one  *)
(* call from every configuration of up to MaxSources sources.              *)
(***************************************************************************)
InitFetch ==
    /\ cfg \in { c \in CycleConfigs : c.TTL = 1 }
    /\ faults = 0
    /\ InitCtx
    /\ InitBase
    /\ feeds \in Feeds

CallFetch ==
    /\ ~fetched.called
    /\ fetched' = Fetch(feeds, now)
    /\ UNCHANGED <<cfg, now, cacheVars, cycleVars, sendRes, sendIn, histVars>>
    /\ UNCHANGED <<storeVars, loadVars, runVars, pureVars, feeds, cycles, aiRes, ncVars>>

NextFetch == CallFetch

SpecFetch == InitFetch /\ [][NextFetch]_vars

RECURSIVE Concat(_)
Concat(ss) == IF ss = <<>> THEN <<>> ELSE Head(ss) \o Concat(Tail(ss))

\* the items of the sources of one kind that answered, in configuration order
SucceededNews(kind, srcs, t) ==
    Concat([i \in 1..Len(srcs) |->
              IF srcs[i].ok THEN SourceFetch(kind, srcs[i], t).news ELSE <<>>])

\* C22: Fetch calls every configured API source and every configured RSS
\* source once, in order, whatever the earlier sources answered; it returns no
\* error, and returns the items of the sources that answered, concatenated.
C22_FetchEverySource ==
    fetched.called =>
        /\ fetched.apiCalls = [i \in 1..Len(feeds.api) |-> i]
        /\ fetched.rssCalls = [i \in 1..Len(feeds.rss) |-> i]
        /\ fetched.err = "nil"
        /\ fetched.news = SucceededNews("api", feeds.api, now)
                            \o SucceededNews("rss", feeds.rss, now)

\* C22 witness: a Fetch whose first source failed and whose second source
\* answered with items
C22_Witness ==
    /\ fetched.called
    /\ \E srcs \in {feeds.api, feeds.rss} :
         /\ Len(srcs) = 2
         /\ ~srcs[1].ok
         /\ srcs[2].ok
         /\ Len(srcs[2].list) > 0
    /\ fetched.news # <<>>

\* every payload item of every source has an id
PayloadsHaveIDs ==
    \A srcs \in {feeds.api, feeds.rss} : \A i \in 1..Len(srcs) :
        \A n \in 1..Len(srcs[i].list) :
            /\ srcs[i].list[n].id # <<>>
            /\ srcs[i].list[n].title # <<>>
            /\ srcs[i].list[n].content # <<>>

\* C25: when the payloads have non-empty id, title and content, every item
\* Fetch returns has a non-empty ID, title, content, Source and Link and a
\* CreateTime that is not the zero time.
C25_FetchedItemsComplete ==
    (fetched.called /\ PayloadsHaveIDs) =>
        \A n \in 1..Len(fetched.news) :
            /\ fetched.news[n].ID # <<>>
            /\ fetched.news[n].OriginalTitle # <<>>
            /\ fetched.news[n].OriginalContent # <<>>
            /\ fetched.news[n].Source # <<>>
            /\ fetched.news[n].Link # <<>>
            /\ fetched.news[n].CreateTime # ZeroTime



(***************************************************************************)
(* The polling cycle with the AI analyzer enabled.                         *)
(***************************************************************************)
InitAI ==
    /\ cfg \in { c \in Configs : /\ c.RetryCount = 1
                                 /\ c.ChatIDs = <<<<"4", "2">>>>
                                 /\ c.TTL = OneYear
                                 /\ c.AI
                                 /\ c.Enabled }
    /\ faults = 0
    /\ InitCtx
    /\ InitState

NextAI ==
    \/ StartCycle
    \/ FilterStep
    \/ AnalyzeStep
    \/ SendStep
    \/ CommitStep

SpecAI == InitAI /\ [][NextAI]_vars

\* the step is AnalyzeNews returning to processNews
AnalyzeTaken == pc = "ai" /\ pc' # "ai"

\* C23: when the analyzer is enabled and the analysis of the new batch fails
\* (here: of every item of the batch), the cycle is aborted: processNews
\* returns and no item of the batch is delivered or committed.
C23_AnalyzerFailureAborts ==
    [][(AnalyzeTaken /\ aiRes'.failed = Len(newNews)) => pc' = "idle"]_vars



(***************************************************************************)
(* End to end: the cycles of one process from the empty cache, fetching    *)
(* from configured sources that answer the same every time, with a         *)
(* transport that accepts every send, the AI analysis off, and a cache.ttl *)
(* inside the clamp.  The clock, the sweeper and the deferred deletes run  *)
(* freely.                                                                 *)
(***************************************************************************)
KeysOf(list) == { KeyOf(list[n]) : n \in 1..Len(list) }

\* sources whose items are distinct and are items of the model's key space
DistinctFeeds ==
    { f \in Feeds :
        LET list == Fetch(f, 0).news IN
        /\ Len(list) > 0
        /\ KeysOf(list) \subseteq Keys
        /\ Cardinality(KeysOf(list)) = Len(list) }

InitE2E ==
    /\ cfg \in { c \in CycleConfigs : c.TTL \in 1..OneYear }
    /\ faults = 0
    /\ InitCtx
    /\ InitBase
    /\ feeds \in DistinctFeeds

\* case <-ticker.C: processNews starts and calls a.fetcher.Fetch(ctx)
StartCycleFetch ==
    /\ pc = "idle"
    /\ cycles < MaxCycles
    /\ cycles' = cycles + 1
    /\ fetched' = Fetch(feeds, now)
    /\ IF Len(fetched'.news) = 0
       THEN UNCHANGED cycleVars
       ELSE /\ pc' = "filter"
            /\ newsList' = fetched'.news
            /\ newNews' = <<>>
            /\ got' = NoGet
    /\ UNCHANGED <<cfg, now, cacheVars, sendRes, sendIn, histVars>>
    /\ UNCHANGED <<storeVars, loadVars, runVars, pureVars, feeds, aiRes, ncVars>>

\* SendNews against a transport that accepts every send
SendAccepted == SendStep /\ ~sendRes'.err

NextE2E ==
    \/ StartCycleFetch
    \/ FilterStep
    \/ SendAccepted
    \/ CommitStep
    \/ DeferredDelete
    \/ Sweep
    \/ Tick

SpecE2E == InitE2E /\ [][NextE2E]_vars

\* the step is one SendNews call of the delivery loop
SendTaken == pc = "send" /\ pc' = "sent"

C26_CancelStopsCycle ==
    [][ctx = "Canceled" => /\ ~FilterTaken
                           /\ ~SendTaken
                           /\ items' = items]_vars



(***************************************************************************)
(* The polling cycle against a transport that may refuse sends and a file  *)
(* system that may fail writes, within a time span in which no entry       *)
(* expires.                                                                *)
(***************************************************************************)
InitFaulty ==
    /\ cfg \in { c \in CycleConfigs : c.TTL = OneYear }
    /\ faults = MaxFaults
    /\ InitCtx
    /\ InitState

NextFaulty ==
    \/ StartCycle
    \/ FilterStep
    \/ SendStep
    \/ CommitStep

SpecFaulty == InitFaulty /\ [][NextFaulty]_vars

\* the entry of k is in memory and the file does not hold it: the save of the
\* Set that made it failed, and no save has succeeded since
Unstored(k) ==
    /\ k \in DOMAIN items
    /\ \/ file.kind # "json"
       \/ k \notin DOMAIN file.entries

\* C27: an item that was delivered and whose commit Set returned a
\* durable-storage error is put into the new batch (and so delivered again)
\* by the next cycle that fetches it.
C27_UncommittedRedelivered ==
    [][FilterTaken =>
         LET k == KeyOf(Head(newsList)) IN
         (writeFailed /\ Unstored(k)) => InBatch(k, newNews')]_vars

\* C28: whatever SendNews and Set returned for an item, the delivery loop goes
\* on to the next item of the batch, and returns only after the last; every
\* item the loop reaches gets a SendNews call, and every item whose SendNews
\* returned nil gets a Set, whether or not the save of that Set failed.
C28_ItemsIndependent ==
    [][/\ (FilterTaken /\ pc' = "send") => Len(newNews') > 0
       /\ SendTaken => (sendRes'.called /\ newNews' = newNews)
       /\ CommitTaken =>
            LET k == KeyOf(Head(newNews)) IN
            /\ IF Len(newNews) > 1
               THEN pc' = "send" /\ newNews' = Tail(newNews)
               ELSE pc' = "idle"
            /\ ~sendRes.err =>
                 /\ k \in DOMAIN items'
                 /\ items'[k].Timestamp = now
                 /\ committed'[k] = [set |-> TRUE, exp |-> items'[k].ExpireAt]]_vars

\* C28 witness: in a batch of two, the first item's delivery failed, or its
\* commit failed to save, and the second item's SendNews has returned nil
C28_Witness ==
    /\ pc = "sent"
    /\ ~sendRes.err
    /\ Len(newNews) = 1
    /\ \E k \in Keys \ KeysOf(newNews) :
         \/ k \in failed /\ ~committed[k].set
         \/ k \in delivered /\ Unstored(k)



\* C29: after Delete(source, id) the key is not in the map and Get reports it
\* absent, every other entry is as it was, and for an absent key the map is
\* unchanged; Delete saves once before it returns, adds no error of its own
\* (it returns an error exactly when that save failed), and the file is then
\* the map that is left.
C29_DeleteFrame ==
    [][Called("Delete") =>
         LET k == ret'.args.key
             n == NewsOfKey(k) IN
         /\ k \notin DOMAIN items'
         /\ ~Get(items', now, n.Source, n.ID).found
         /\ DOMAIN items' = DOMAIN items \ {k}
         /\ \A j \in DOMAIN items' : items'[j] = items[j]
         /\ k \notin DOMAIN items => items' = items
         /\ ret'.saves = 1
         /\ (ret'.err # "nil") <=> (faults' < faults \/ ~Marshalable(items'))
         /\ ret'.err = "nil" => file' = Marshal(items')
      ]_vars

\* C29 witness: Delete has returned nil for a key that the file held; another
\* entry is still in the map, and the file is the map without the key
C29_Witness ==
    /\ ret.op = "Delete"
    /\ ret.err = "nil"
    /\ committed[ret.args.key].set
    /\ ret.args.key \notin DOMAIN items
    /\ items # NoItems
    /\ file = Marshal(items)



(***************************************************************************)
(* models.NewsCache under concurrent callers.  A method is the steps       *)
(* between its taking of the RWMutex and its deferred release; a caller's  *)
(* ncPc says which method it is in and for which id.  A write of the map   *)
(* made while another caller is inside the read lock is a data race on a   *)
(* Go map: the runtime may let it pass or stop the process with "fatal     *)
(* error: concurrent map read and map write".                              *)
(***************************************************************************)
NcIDs == { <<"1">>, <<"2">> }

\* time.Since(timestamp) > c.ttl
NcExpired(t, timestamp, ttl) == t - timestamp > ttl

\* c.items[id] = time.Now()
NcAdd(its, id, t) ==
    [k \in DOMAIN its \cup {id} |-> IF k = id THEN t ELSE its[k]]

\* delete(c.items, id)
NcDelete(its, id) == [k \in DOMAIN its \ {id} |-> its[k]]

\* the range loop of Cleanup
NcCleanup(its, t, ttl) ==
    [k \in { j \in DOMAIN its : ~NcExpired(t, its[j], ttl) } |-> its[k]]

\* c.Lock() of Add and of Cleanup
NcLock ==
    /\ \E t \in Callers, op \in {"add", "cleanup"}, id \in NcIDs :
         /\ ncPc[t].at = "idle"
         /\ ncLock = Unlocked
         /\ ncLock' = [ncLock EXCEPT !.writer = t]
         /\ ncPc' = [ncPc EXCEPT ![t] = [at |-> op,
                                         id |-> IF op = "add" THEN id ELSE <<>>]]
    /\ UNCHANGED <<cfg, now, cacheVars, cycleVars, sendRes, sendIn, histVars, storeVars>>
    /\ UNCHANGED <<loadVars, runVars, pureVars, feeds, fetched, cycles, aiRes, ncItems>>

\* NewsCache.Add, from the lock to the deferred Unlock
NcAddBody ==
    /\ \E t \in Callers :
         /\ ncPc[t].at = "add"
         /\ ncItems' = NcAdd(ncItems, ncPc[t].id, now)
         /\ ncLock' = Unlocked
         /\ ncPc' = [ncPc EXCEPT ![t] = IdlePc]
    /\ UNCHANGED <<cfg, now, cacheVars, cycleVars, sendRes, sendIn, histVars, storeVars>>
    /\ UNCHANGED <<loadVars, runVars, pureVars, feeds, fetched, cycles, aiRes>>

\* NewsCache.Cleanup, from the lock to the deferred Unlock
NcCleanupBody ==
    /\ \E t \in Callers :
         /\ ncPc[t].at = "cleanup"
         /\ ncItems' = NcCleanup(ncItems, now, cfg.TTL)
         /\ ncLock' = Unlocked
         /\ ncPc' = [ncPc EXCEPT ![t] = IdlePc]
    /\ UNCHANGED <<cfg, now, cacheVars, cycleVars, sendRes, sendIn, histVars, storeVars>>
    /\ UNCHANGED <<loadVars, runVars, pureVars, feeds, fetched, cycles, aiRes>>

\* c.RLock() of Exists
NcRLock ==
    /\ \E t \in Callers, id \in NcIDs :
         /\ ncPc[t].at = "idle"
         /\ ncLock.writer = 0
         /\ ncLock' = [ncLock EXCEPT !.readers = @ \cup {t}]
         /\ ncPc' = [ncPc EXCEPT ![t] = [at |-> "exists", id |-> id]]
    /\ UNCHANGED <<cfg, now, cacheVars, cycleVars, sendRes, sendIn, histVars, storeVars>>
    /\ UNCHANGED <<loadVars, runVars, pureVars, feeds, fetched, cycles, aiRes, ncItems>>

\* NewsCache.Exists: `timestamp, exists := c.items[id]` and the expiry test;
\* it returns (with the deferred RUnlock) unless the entry has expired
NcExistsRead ==
    /\ \E t \in Callers :
         LET id == ncPc[t].id IN
         /\ ncPc[t].at = "exists"
         /\ IF id \in DOMAIN ncItems /\ NcExpired(now, ncItems[id], cfg.TTL)
            THEN /\ ncPc' = [ncPc EXCEPT ![t].at = "expired"]
                 /\ UNCHANGED ncLock
            ELSE /\ ncPc' = [ncPc EXCEPT ![t] = IdlePc]
                 /\ ncLock' = [ncLock EXCEPT !.readers = @ \ {t}]
    /\ UNCHANGED <<cfg, now, cacheVars, cycleVars, sendRes, sendIn, histVars, storeVars>>
    /\ UNCHANGED <<loadVars, runVars, pureVars, feeds, fetched, cycles, aiRes, ncItems>>

\* NewsCache.Exists: `delete(c.items, id)`, `return false` and the deferred
\* RUnlock; with another caller inside the read lock the runtime may stop the
\* process instead
NcExistsDelete ==
    /\ \E t \in Callers, fatal \in BOOLEAN :
         /\ ncPc[t].at = "expired"
         /\ fatal => ncLock.readers # {t}
         /\ IF fatal
            THEN /\ ncPc' = [u \in Callers |-> [at |-> "fatal", id |-> <<>>]]
                 /\ UNCHANGED <<ncItems, ncLock>>
            ELSE /\ ncItems' = NcDelete(ncItems, ncPc[t].id)
                 /\ ncLock' = [ncLock EXCEPT !.readers = @ \ {t}]
                 /\ ncPc' = [ncPc EXCEPT ![t] = IdlePc]
    /\ UNCHANGED <<cfg, now, cacheVars, cycleVars, sendRes, sendIn, histVars, storeVars>>
    /\ UNCHANGED <<loadVars, runVars, pureVars, feeds, fetched, cycles, aiRes>>

\* NewNewsCache(ttl), with ttl the configured cache.ttl
InitNewsCache ==
    /\ cfg \in { c \in CycleConfigs : c.TTL \in 0..1 }
    /\ faults = 0
    /\ InitCtx
    /\ InitState

NextNewsCache ==
    \/ NcLock
    \/ NcAddBody
    \/ NcCleanupBody
    \/ NcRLock
    \/ NcExistsRead
    \/ NcExistsDelete
    \/ Tick

SpecNewsCache == InitNewsCache /\ [][NextNewsCache]_vars

\* C30: an entry map is written only by a caller that holds the exclusive
\* lock: a step that changes NewsCache.items is taken with the write lock held
\* and no reader inside.
C30_LockDiscipline ==
    [][ncItems' # ncItems => (ncLock.writer # 0 /\ ncLock.readers = {})]_vars



\* C35: a SendNews call of the enabled sender that returns an error has
\* called sendToChat for every configured recipient at least once, whatever
\* telegram.retry.count is.
C35_AttemptBeforeError ==
    (sendRes.called /\ sendRes.err) =>
        \A j \in 1..Len(cfg.ChatIDs) : sendRes.calls[j] >= 1



(***************************************************************************)
(* The polling cycle with the delivery channel enabled or disabled, two    *)
(* recipients and up to two attempts, within a time span in which no entry *)
(* expires.                                                                *)
(***************************************************************************)
InitChannel ==
    /\ cfg \in { c \in Configs : /\ c.TTL = OneYear
                                 /\ c.RetryCount \in 1..2
                                 /\ c.ChatIDs = << <<"4", "2">>, <<"-", "7">> >>
                                 /\ ~c.AI }
    /\ faults = 0
    /\ InitCtx
    /\ InitState

NextChannel ==
    \/ StartCycle
    \/ FilterStep
    \/ SendStep
    \/ CommitStep

SpecChannel == InitChannel /\ [][NextChannel]_vars

\* C34: the delivery loop commits an item (Set) only when the SendNews call
\* for it made, for every configured recipient, a transport send that
\* succeeded.
C34_CommitOnlyIfSent ==
    [][(CommitTaken /\ committed' # committed) =>
         \A j \in 1..Len(cfg.ChatIDs) : sendRes.sent[j] >= 1]_vars



\* C33: within one cycle no (source, id) is delivered twice: a SendNews call
\* that succeeds is not for a key whose SendNews has already succeeded in the
\* running cycle.
C33_OncePerCycle ==
    [][(SendTaken /\ ~sendRes'.err) => KeyOf(Head(newNews)) \notin delivered]_vars



(***************************************************************************)
(* One item through the analyzer and the sender's formatter: what          *)
(* analyzeNewsItem leaves in the item, and the message formatMessage makes *)
(* of it.                                                                  *)
(***************************************************************************)
InitAnalyze ==
    /\ cfg \in { c \in Configs : /\ c.RetryCount = 1
                                 /\ c.ChatIDs = <<<<"4", "2">>>>
                                 /\ c.TTL = OneYear
                                 /\ c.AI
                                 /\ c.Enabled }
    /\ faults = 0
    /\ InitCtx
    /\ InitState

CallAnalyze ==
    /\ ~analysed.called
    /\ \E news \in NewsItems, o \in {"ok", "fail"} :
         analysed' = [called |-> TRUE, out |-> o, before |-> news,
                      after |-> Analyzed(news, o),
                      message |-> formatMessage(Analyzed(news, o))]
    /\ UNCHANGED <<cfg, now, cacheVars, cycleVars, sendRes, sendIn, histVars>>
    /\ UNCHANGED <<storeVars, loadVars, runVars, feeds, fetched, cycles, aiRes,
                   ncVars, keyOps>>

NextAnalyze == CallAnalyze

SpecAnalyze == InitAnalyze /\ [][NextAnalyze]_vars

\* sub occurs in seq as a run of consecutive elements
Contains(seq, sub) ==
    \E i \in 1..(Len(seq) - Len(sub) + 1) : SubSeq(seq, i, i + Len(sub) - 1) = sub

\* C31: after an analysis that succeeded, the item's Analysis field holds the
\* generated text, the message formatted for the item contains it, and the
\* item's TranslatedContent is what it was before.
C31_AnalysisStored ==
    (analysed.called /\ analysed.out = "ok") =>
        /\ analysed.after.Analysis = AIText
        /\ Contains(analysed.message, <<"AI">> \o AIText)
        /\ analysed.after.TranslatedContent = analysed.before.TranslatedContent

(***************************************************************************)
(* The cache called with (source, id) pairs that hold the separator of     *)
(* generateKey, within a time span in which no entry expires.              *)
(***************************************************************************)
InitKeys ==
    /\ cfg \in { c \in CycleConfigs : c.TTL = OneYear }
    /\ faults = 0
    /\ InitCtx
    /\ InitState

\* Cache.Set(source, id, true, ttl), with save
KeySet ==
    /\ \E p \in Pairs, ttl \in 1..OneYear :
         /\ items' = Set(items, now, p.Source, p.ID, "true", ttl)
         /\ keyOps' = [keyOps EXCEPT !.sets = @ \cup {p}]
    /\ Persist(items', "ok")
    /\ UNCHANGED <<cfg, now, pendingDelete, staleDelete, cycleVars, sendRes, sendIn>>
    /\ UNCHANGED <<histVars, loadVars, runVars, feeds, fetched, cycles, aiRes,
                   ncVars, analysed>>

\* Cache.Get(source, id) of an entry that has not expired
KeyGet ==
    /\ \E p \in Pairs :
         /\ ~Get(items, now, p.Source, p.ID).spawn
         /\ got' = Get(items, now, p.Source, p.ID)
         /\ keyOps' = [keyOps EXCEPT !.last = p]
    /\ UNCHANGED <<cfg, now, cacheVars, pc, newsList, newNews, sendRes, sendIn>>
    /\ UNCHANGED <<histVars, storeVars, loadVars, runVars, feeds, fetched, cycles,
                   aiRes, ncVars, analysed>>

NextKeys ==
    \/ KeySet
    \/ KeyGet

SpecKeys == InitKeys /\ [][NextKeys]_vars

\* C32: Get reports a hit for a (source, id) pair only if a Set was made for
\* that very pair: a Set for another pair never makes it hit.
C32_DistinctPairsDistinctKeys ==
    (keyOps.last # NoPair /\ keyOps.last \notin keyOps.sets) => ~got.found


=============================================================================
